---------------------------- MODULE Spec2Model ----------------------------
(***************************************************************************)
(* A model of src/proxy.ts: the ProgressEvent record with its constructor, *)
(* its builder and the failed / progress / success helpers, and the        *)
(* SessionProxy client factory.                                            *)
(*                                                                         *)
(* An object is a function from the set of its own keys to their values:   *)
(* an absent field is a key outside DOMAIN.  JavaScript values of the      *)
(* `any`-typed parameters are denoted by strings ("0" is the number zero,  *)
(* "" the empty string, "obj1" some object).                               *)
(***************************************************************************)
EXTENDS Integers, Sequences, FiniteSets, TLC

VARIABLES
    call,        \* the ProgressEvent operation last started, with its arguments
    event,       \* the ProgressEvent that operation returned (NoEvent: none yet)
    built,       \* the fields set so far on the live builder
    sessionCall, \* how the live SessionProxy was obtained, with the arguments
    session,     \* what that call produced: null or a SessionProxy
    captured,    \* the configuration the live SessionProxy was constructed with
    clients,     \* the clients the live SessionProxy has built, in call order
    invocations  \* the handler invocations of one resource operation so far

vars == <<call, event, built, sessionCall, session, captured, clients, invocations>>

eventVars == <<call, event, built>>
sessionVars == <<sessionCall, session, captured, clients>>

---------------------------------------------------------------------------
(* Bounds *)

MaxPartialKeys == 2
MaxClients == 2
MaxInvocations == 3

---------------------------------------------------------------------------
(* JavaScript values *)

Undefined == "undefined"
JsNull == "null"

\* The values `if (x)` treats as false.
Falsy == {Undefined, JsNull, "false", "0", ""}

Truthy(v) == v \notin Falsy

\* The values a caller may pass for the `any`-typed model and ctx.
AnyValues == Falsy \cup {"obj1", "obj2"}

\* Object.assign(target, source) / {...target, ...source}: every own key of
\* source overwrites, every other key of target is kept.
Assign(target, source) ==
    [k \in (DOMAIN target) \cup (DOMAIN source) |->
        IF k \in DOMAIN source THEN source[k] ELSE target[k]]

EmptyObject == <<>>

\* An optional argument: <<>> when not supplied, <<v>> when supplied.
Optional(V) == {<<>>} \cup {<<v>> : v \in V}

Prop(key, opt) == IF opt = <<>> THEN EmptyObject ELSE key :> opt[1]

---------------------------------------------------------------------------
(* ProgressEvent *)

InProgress == "IN_PROGRESS"
Success == "SUCCESS"
Failed == "FAILED"

OperationStatus == {InProgress, Success, Failed}

HandlerErrorCode == {"NotFound", "InternalFailure"}

Messages == {"", "ok"}

Fields ==
    {"status", "errorCode", "message", "callbackContext",
     "callbackDelaySeconds", "resourceModel", "resourceModels", "nextToken"}

\* The values each field takes in the objects the model enumerates.
AllPartials ==
    { Assign(Prop("status", st),
      Assign(Prop("errorCode", ec),
      Assign(Prop("message", msg),
      Assign(Prop("callbackContext", cc),
      Assign(Prop("callbackDelaySeconds", cd),
      Assign(Prop("resourceModel", rm),
      Assign(Prop("resourceModels", rms), Prop("nextToken", nt)))))))) :
        st \in Optional(OperationStatus),
        ec \in Optional(HandlerErrorCode),
        msg \in Optional(Messages \cup {Undefined}),
        cc \in Optional({"obj1"}),
        cd \in Optional({0, 5}),
        rm \in Optional({"obj2"}),
        rms \in Optional({<<"obj1", "obj2">>}),
        nt \in Optional({"token"}) }

Partials == {p \in AllPartials : Cardinality(DOMAIN p) <= MaxPartialKeys}

FieldValues(f) ==
    CASE f = "status" -> OperationStatus
      [] f = "errorCode" -> HandlerErrorCode
      [] f = "message" -> Messages
      [] f = "callbackContext" -> {"obj1"}
      [] f = "callbackDelaySeconds" -> {0, 5}
      [] f = "resourceModel" -> {"obj2"}
      [] f = "resourceModels" -> {<<"obj1", "obj2">>}
      [] f = "nextToken" -> {"token"}

\* The field initialisers of the class: message = '' and callbackDelaySeconds = 0.
ClassDefaults == [message |-> "", callbackDelaySeconds |-> 0]

ProgressEventCtorDefaultsLast(partial) ==
    IF partial # <<>> THEN Assign(partial[1], ClassDefaults) ELSE ClassDefaults

\* constructor(partial?): the field initialisers run, then Object.assign(this, partial).
ProgressEventCtor(partial) ==
    IF partial # <<>> THEN Assign(ClassDefaults, partial[1]) ELSE ClassDefaults

\* @builder: the decorator on the class replaces the static builder stub (whose
\* own body returns null) by one that starts a draft holding the template's
\* fields; each chained setter records one field and build() constructs the
\* ProgressEvent from the draft.  Nothing is validated on the way.
builder(template) ==
    IF template # <<>> THEN Assign(EmptyObject, template[1]) ELSE EmptyObject

\* A chained setter .prop(x) records x under prop on the draft.
setter(draft, prop, x) == Assign(draft, prop :> x)

\* .build() constructs the ProgressEvent from the draft.
build(draft) == ProgressEventCtor(<<draft>>)

failedWithoutMessage(errorCode, message) ==
    build(setter(setter(builder(<<>>), "status", Failed), "errorCode", errorCode))

failedWithoutErrorCode(errorCode, message) ==
    build(setter(setter(builder(<<>>), "status", Failed), "message", message))

failed(errorCode, message) ==
    build(setter(setter(setter(builder(<<>>),
        "status", Failed), "errorCode", errorCode), "message", message))

progressWithoutStatus(model, ctx) ==
    LET progress0 == builder(<<>>)
        progress1 == IF Truthy(ctx) THEN setter(progress0, "callbackContext", ctx)
                                    ELSE progress0
        progress2 == IF Truthy(model) THEN setter(progress1, "resourceModel", model)
                                      ELSE progress1
    IN  build(progress2)

progress(model, ctx) ==
    LET progress0 == setter(builder(<<>>), "status", InProgress)
        progress1 == IF Truthy(ctx) THEN setter(progress0, "callbackContext", ctx)
                                    ELSE progress0
        progress2 == IF Truthy(model) THEN setter(progress1, "resourceModel", model)
                                      ELSE progress1
    IN  build(progress2)

successWithoutOverwrite(model, ctx) == progress(model, ctx)

success(model, ctx) ==
    LET ev == progress(model, ctx)
    IN  Assign(ev, "status" :> Success)

NoEvent == <<>>

NoCall == [op |-> "none"]

\* new ProgressEvent(partial?)
New(partial) ==
    /\ call' = [op |-> "new", partial |-> partial]
    /\ event' = ProgressEventCtor(partial)
    /\ built' = EmptyObject
    /\ UNCHANGED <<sessionVars, invocations>>

\* ProgressEvent.builder(template?)
Builder(template) ==
    /\ call' = [op |-> "builder"]
    /\ event' = NoEvent
    /\ built' = builder(template)
    /\ UNCHANGED <<sessionVars, invocations>>

\* .prop(x) on the live builder
Setter(prop, x) ==
    /\ call.op = "builder"
    /\ built' = setter(built, prop, x)
    /\ UNCHANGED <<call, event, sessionVars, invocations>>

\* .build() on the live builder
Build ==
    /\ call.op = "builder"
    /\ call' = [op |-> "build", draft |-> built]
    /\ event' = build(built)
    /\ built' = EmptyObject
    /\ UNCHANGED <<sessionVars, invocations>>

\* ProgressEvent.failed(errorCode, message)
FailedCall(errorCode, message) ==
    /\ call' = [op |-> "failed", errorCode |-> errorCode, message |-> message]
    /\ event' = failed(errorCode, message)
    /\ built' = EmptyObject
    /\ UNCHANGED <<sessionVars, invocations>>

\* ProgressEvent.progress(model, ctx)
ProgressCall(model, ctx) ==
    /\ call' = [op |-> "progress", model |-> model, ctx |-> ctx]
    /\ event' = progress(model, ctx)
    /\ built' = EmptyObject
    /\ UNCHANGED <<sessionVars, invocations>>

\* ProgressEvent.success(model, ctx)
SuccessCall(model, ctx) ==
    /\ call' = [op |-> "success", model |-> model, ctx |-> ctx]
    /\ event' = success(model, ctx)
    /\ built' = EmptyObject
    /\ UNCHANGED <<sessionVars, invocations>>

---------------------------------------------------------------------------
(* SessionProxy *)

Credentials == {"creds1", "creds2"}

Regions == {"X", "Y"}

ServiceNames == {"S3", "DynamoDB"}

\* Configurations a SessionProxy may be constructed with.
BaseConfigs ==
    { Assign(Prop("credentials", c), Assign(Prop("region", r), Prop("maxRetries", n))) :
        c \in Optional(Credentials),
        r \in Optional(Regions \cup {Undefined}),
        n \in Optional({3}) }

\* Per-call overrides handed to client(name, options).
CallOptions ==
    { Assign(Prop("region", r), Prop("maxRetries", n)) :
        r \in Optional(Regions), n \in Optional({5}) }

NullSession == [null |-> TRUE]

\* new SessionProxy(options)
SessionProxyCtor(options) == [null |-> FALSE, options |-> options]

getSessionWithoutRegion(credentials, region) ==
    IF ~Truthy(credentials)
    THEN NullSession
    ELSE SessionProxyCtor([credentials |-> credentials])

getSession(credentials, region) ==
    IF ~Truthy(credentials)
    THEN NullSession
    ELSE SessionProxyCtor([credentials |-> credentials, region |-> region])

\* {...a, ...b} where b may be undefined (<<>>): spreading undefined adds nothing.
Spread(a, b) == IF b # <<>> THEN Assign(a, b[1]) ELSE a

clientBaseWins(thisOptions, name, options) ==
    [service |-> [name |-> name,
                  config |-> IF options # <<>> THEN Assign(options[1], thisOptions)
                                              ELSE thisOptions],
     thisOptions |-> thisOptions]

clientMutatingBase(thisOptions, name, options) ==
    [service |-> [name |-> name, config |-> Spread(thisOptions, options)],
     thisOptions |-> Spread(thisOptions, options)]

\* client(name, options?): the service built, and this.options after the call.
client(thisOptions, name, options) ==
    [service |-> [name |-> name, config |-> Spread(thisOptions, options)],
     thisOptions |-> thisOptions]

\* SessionProxy.getSession(credentials?, region?)
GetSession(credentials, region) ==
    LET s == getSession(credentials, region)
    IN  /\ sessionCall' = [op |-> "getSession", credentials |-> credentials,
                           region |-> region]
        /\ session' = s
        /\ captured' = IF s.null THEN EmptyObject ELSE s.options
        /\ clients' = <<>>
        /\ UNCHANGED <<eventVars, invocations>>

\* new SessionProxy(options)
NewSessionProxy(options) ==
    /\ sessionCall' = [op |-> "new", options |-> options]
    /\ session' = SessionProxyCtor(options)
    /\ captured' = options
    /\ clients' = <<>>
    /\ UNCHANGED <<eventVars, invocations>>

\* session.client(name, options?)
Client(name, options) ==
    /\ ~session.null
    /\ Len(clients) < MaxClients
    /\ LET r == client(session.options, name, options)
       IN  /\ clients' = Append(clients,
                 [id |-> Len(clients) + 1, name |-> r.service.name,
                  config |-> r.service.config,
                  base |-> session.options, options |-> options])
           /\ session' = [session EXCEPT !.options = r.thisOptions]
    /\ UNCHANGED <<sessionCall, captured, eventVars, invocations>>

---------------------------------------------------------------------------
(* The orchestrator's side of the protocol, from the specification *)

\* The events a handler may return: it builds them with the helpers.
HandlerEvents ==
    {progress(m, c) : m \in AnyValues, c \in AnyValues}
        \cup {success(m, c) : m \in AnyValues, c \in AnyValues}
        \cup {failed(e, msg) : e \in HandlerErrorCode, msg \in Messages}

ReschedulesUnlessFailed(ev) == ev.status # Failed

\* The orchestrator reschedules another invocation only when it receives IN_PROGRESS.
Reschedules(ev) == ev.status = InProgress

ForwardedContextDropped(ev) == Undefined

\* The callbackContext of the returned event is forwarded unchanged into the
\* next invocation's request (reading an absent field gives undefined).
ForwardedContext(ev) ==
    IF "callbackContext" \in DOMAIN ev THEN ev.callbackContext ELSE Undefined

\* One handler invocation: it is given a callback context and returns one event.
Invoke(ev) ==
    /\ Len(invocations) < MaxInvocations
    /\ \/ /\ invocations = <<>>
          /\ invocations' = <<[context |-> Undefined, event |-> ev]>>
       \/ /\ invocations # <<>>
          /\ Reschedules(invocations[Len(invocations)].event)
          /\ invocations' = Append(invocations,
                [context |-> ForwardedContext(invocations[Len(invocations)].event),
                 event |-> ev])
    /\ UNCHANGED <<eventVars, sessionVars>>

---------------------------------------------------------------------------
(* Specifications *)

InitEvent ==
    /\ call = NoCall
    /\ event = NoEvent
    /\ built = EmptyObject

InitSession ==
    /\ sessionCall = NoCall
    /\ session = NullSession
    /\ captured = EmptyObject
    /\ clients = <<>>

InitOperation == invocations = <<>>

Init == InitEvent /\ InitSession /\ InitOperation

NextEvent ==
    \/ \E partial \in Optional(Partials) : New(partial)
    \/ \E template \in Optional(Partials) : Builder(template)
    \/ \E prop \in Fields : \E x \in FieldValues(prop) : Setter(prop, x)
    \/ Build
    \/ \E errorCode \in HandlerErrorCode, message \in Messages :
           FailedCall(errorCode, message)
    \/ \E model \in AnyValues, ctx \in AnyValues : ProgressCall(model, ctx)
    \/ \E model \in AnyValues, ctx \in AnyValues : SuccessCall(model, ctx)

NextSession ==
    \/ \E credentials \in Credentials \cup {Undefined, JsNull},
          region \in Regions \cup {Undefined} : GetSession(credentials, region)
    \/ \E options \in BaseConfigs : NewSessionProxy(options)
    \/ \E name \in ServiceNames, options \in Optional(CallOptions) :
           Client(name, options)

NextOperation == \E ev \in HandlerEvents : Invoke(ev)

SpecEvent == Init /\ [][NextEvent]_vars

SpecSession == Init /\ [][NextSession]_vars

SpecOperation == Init /\ [][NextOperation]_vars

---------------------------------------------------------------------------
(* Properties *)

Has(obj, key) == key \in DOMAIN obj

\* An argument counts as provided when the caller passed a value for it
\* (undefined and null stand for "no value").
Provided(v) == v \notin {Undefined, JsNull}

Helpers == {"failed", "progress", "success"}

\* C1: progress(model, ctx) returns an IN_PROGRESS event whose resourceModel
\* is model exactly when model was provided and whose callbackContext is ctx
\* exactly when ctx was provided, falsy values (0, '', false) included.
C1_ProgressAttachesEveryProvidedValue ==
    call.op = "progress" =>
        /\ Has(event, "status") /\ event.status = InProgress
        /\ IF Provided(call.model)
           THEN Has(event, "resourceModel") /\ event.resourceModel = call.model
           ELSE ~Has(event, "resourceModel")
        /\ IF Provided(call.ctx)
           THEN Has(event, "callbackContext") /\ event.callbackContext = call.ctx
           ELSE ~Has(event, "callbackContext")

\* C2: failed(errorCode, message) returns an event with status FAILED, the
\* given errorCode and message, and neither resourceModel nor callbackContext.
C2_FailedEvent ==
    call.op = "failed" =>
        /\ Has(event, "status") /\ event.status = Failed
        /\ Has(event, "errorCode") /\ event.errorCode = call.errorCode
        /\ Has(event, "message") /\ event.message = call.message
        /\ ~Has(event, "resourceModel")
        /\ ~Has(event, "callbackContext")

C2_Witness ==
    /\ call.op = "failed"
    /\ call.errorCode = "NotFound"
    /\ call.message = "ok"
    /\ event.message = "ok"

\* C3: success(model, ctx) returns the event progress(model, ctx) returns,
\* field by field, except that status is SUCCESS and never IN_PROGRESS.
C3_SuccessIsProgressButStatus ==
    call.op = "success" =>
        LET p == progress(call.model, call.ctx)
        IN  /\ DOMAIN event = DOMAIN p
            /\ \A k \in DOMAIN p \ {"status"} : event[k] = p[k]
            /\ p.status = InProgress
            /\ event.status = Success

C3_Witness ==
    /\ call.op = "success"
    /\ call.model = "obj1"
    /\ call.ctx = "obj2"
    /\ event.status = Success
    /\ event.resourceModel = "obj1"
    /\ event.callbackContext = "obj2"

\* C4: getSession returns null when no credentials are supplied, whatever the
\* region; with credentials it returns a SessionProxy whose base configuration
\* is exactly {credentials, region}, so a client built with no region
\* override carries that region.
C4_GetSession ==
    sessionCall.op = "getSession" =>
        IF ~Provided(sessionCall.credentials)
        THEN session.null
        ELSE /\ ~session.null
             /\ captured = [credentials |-> sessionCall.credentials,
                            region |-> sessionCall.region]
             /\ \A i \in 1..Len(clients) :
                    (clients[i].options = <<>> \/ ~Has(clients[i].options[1], "region"))
                        => /\ Has(clients[i].config, "region")
                           /\ clients[i].config.region = sessionCall.region

C4_Witness ==
    /\ sessionCall.op = "getSession"
    /\ sessionCall.credentials = "creds1"
    /\ sessionCall.region = "Y"
    /\ Len(clients) = 1
    /\ clients[1].options = <<>>
    /\ clients[1].config.region = "Y"

\* C5: client(name, O) on a proxy with base configuration B builds the client
\* with the shallow merge of B and O: O's value for every key of O, B's value
\* for every key of B alone, no other key; with no options, exactly B.
C5_ClientConfigIsShallowMerge ==
    \A i \in 1..Len(clients) :
        LET B == clients[i].base
            config == clients[i].config
        IN  IF clients[i].options = <<>>
            THEN config = B
            ELSE LET O == clients[i].options[1]
                 IN  /\ DOMAIN config = DOMAIN B \cup DOMAIN O
                     /\ \A k \in DOMAIN O : config[k] = O[k]
                     /\ \A k \in DOMAIN B \ DOMAIN O : config[k] = B[k]

C5_Witness ==
    /\ Len(clients) >= 1
    /\ Has(clients[1].base, "region") /\ clients[1].base.region = "Y"
    /\ clients[1].options # <<>>
    /\ Has(clients[1].options[1], "region") /\ clients[1].options[1].region = "X"
    /\ clients[1].config.region = "X"
    /\ Has(clients[1].config, "credentials")

\* C6: new ProgressEvent(partial) has every field of the partial with the
\* partial's value, message '' and callbackDelaySeconds 0 where the partial
\* has none, and every other field absent; with no partial, just the defaults.
C6_ConstructorCopiesPartial ==
    call.op = "new" =>
        LET p == IF call.partial = <<>> THEN EmptyObject ELSE call.partial[1]
        IN  /\ \A k \in DOMAIN p : Has(event, k) /\ event[k] = p[k]
            /\ ~Has(p, "message") => Has(event, "message") /\ event.message = ""
            /\ ~Has(p, "callbackDelaySeconds") =>
                   Has(event, "callbackDelaySeconds") /\ event.callbackDelaySeconds = 0
            /\ DOMAIN event = DOMAIN p \cup {"message", "callbackDelaySeconds"}

C6_Witness ==
    /\ call.op = "new"
    /\ call.partial = <<[status |-> Success, message |-> "ok"]>>
    /\ event = [status |-> Success, message |-> "ok", callbackDelaySeconds |-> 0]

\* C7: within one resource operation, invocation n+1 happens only if
\* invocation n returned IN_PROGRESS, and it is given the callbackContext of
\* the event invocation n returned; nothing follows SUCCESS or FAILED.
C7_InvocationChain ==
    \A n \in 1..Len(invocations) :
        /\ Has(invocations[n].event, "status")
        /\ n < Len(invocations) =>
              /\ invocations[n].event.status = InProgress
              /\ invocations[n + 1].context =
                     IF Has(invocations[n].event, "callbackContext")
                     THEN invocations[n].event.callbackContext
                     ELSE Undefined

C7_Witness ==
    /\ Len(invocations) = 3
    /\ invocations[1].event.status = InProgress
    /\ invocations[2].event.status = InProgress
    /\ invocations[3].event.status = Success
    /\ invocations[2].context = "obj1"
    /\ invocations[3].context = "obj2"
    /\ Has(invocations[3].event, "resourceModel")

C10_ClientLeavesBaseAlone ==
    ~session.null =>
        /\ session.options = captured
        /\ \A i, j \in 1..Len(clients) :
              /\ (i # j => clients[i].id # clients[j].id)
              /\ clients[i].base = captured
              /\ clients[i].options = clients[j].options =>
                     clients[i].config = clients[j].config

C10_Witness ==
    /\ ~session.null
    /\ Len(clients) = 2
    /\ Has(captured, "region") /\ captured.region = "Y"
    /\ clients[1].options # <<>>
    /\ Has(clients[1].options[1], "region") /\ clients[1].options[1].region = "X"
    /\ clients[2].options = <<>>
    /\ clients[2].config.region = "Y"
    /\ session.options = captured

=============================================================================
